---- MODULE Spec2Model ----
(***************************************************************************)
(* A model of the rss-feeds generators: the shared utilities of            *)
(* feed_generators/utils.py (validate_article, parse_date,                 *)
(* stable_fallback_date, generate_rss_feed, save_rss_feed) and the three   *)
(* site scrapers built on them.                                            *)
(*                                                                         *)
(* Python values are modelled as follows.  A str is a TLA+ string.  An     *)
(* optional value is None (the empty tuple) or Some(v) (a one-element      *)
(* tuple).  A dict is a function whose DOMAIN is the set of keys present.  *)
(* A datetime (always midnight UTC in this program) is a record            *)
(* [year, month, day].                                                     *)
(***************************************************************************)
EXTENDS Integers, Sequences, FiniteSets, TLC

VARIABLES
    \* ---- validate_article driven on its own (SpecValidate)
    va_article,        \* the article dict handed to validate_article
    va_require_date,   \* the require_date argument
    va_pc,             \* "call" before the call, "done" after it
    va_result,         \* the return value, once va_pc = "done"
    \* ---- parse_date driven on its own (SpecDate)
    pd_text,           \* the date_text argument: None or Some(text)
    pd_now_year,       \* datetime.now().year at the time of the call
    pd_pc,             \* "call" before the call, "done" after it
    pd_result,         \* the return value: None or Some(datetime)
    \* ---- generate_rss_feed driven on its own (SpecFeed)
    gf_articles,       \* the articles argument: a sequence of article dicts
    gf_config,         \* the feed_config argument: date_field and sort_reverse
    gf_pc,             \* "call" before the call, "done" after it
    gf_result,         \* what the call produced: an exception or a feed
    \* ---- a site scraper's main(), run as successive processes (Spec)
    site,              \* which scraper: engineering, research, thinkingmachines
    page,              \* the listing page the site serves (the same in every run)
    now_year,          \* datetime.now().year during the runs
    run,               \* the number of the current process, from 1
    hash_key,          \* the str hash key of the current process
    pc,                \* where main() is: start, fetched, parsed, generated, done
    html_content,      \* main's html_content: None or Some(page)
    main_articles,     \* main's articles
    feed,              \* the entries of the feed generate_rss_feed returned
    disk,              \* the feed file feeds/feed_<name>.xml
    disk_at_start,     \* the feed file as it was when the current process began
    writer_calls,      \* how often the current process has called save_rss_feed
    failed,            \* the stage that raised in the current process, or "none"
    env_faults,        \* what the environment made fail in the current process
    ret,               \* main's return value: None until it returns
    escaped,           \* whether an exception has left main()
    prev,              \* the previous process's return value and feed
    fallback_log,      \* the stable_fallback_date calls so far: <<identifier, date>>
    \* ---- run_all_feeds (SpecRunAll)
    ra_listing,        \* os.listdir(feed_generators_dir), in the order it came
    ra_i,              \* the position of the for loop in the listing, from 1
    ra_runs,           \* the subprocess.run calls made: <<filename, outcome>>
    ra_successful,     \* successful_scripts
    ra_failed,         \* failed_scripts
    ra_pc,             \* "loop" in the for loop, "done" once it has returned
    ra_exit,           \* the return value: None or Some(code)
    \* ---- extract_title driven on its own (SpecTitle)
    et_fn,             \* which extract_title: of utils or of thinkingmachines_blog
    et_card,           \* the card argument: the elements of the subtree
    et_pc,             \* "call" before the call, "done" after it
    et_result          \* the return value: None or Some(title)

va_vars == <<va_article, va_require_date, va_pc, va_result>>

pd_vars == <<pd_text, pd_now_year, pd_pc, pd_result>>

gf_vars == <<gf_articles, gf_config, gf_pc, gf_result>>

run_vars == <<site, page, now_year, run, hash_key, pc, html_content, main_articles, feed,
              disk, disk_at_start, writer_calls, failed, env_faults, ret, escaped, prev,
              fallback_log>>

ra_vars == <<ra_listing, ra_i, ra_runs, ra_successful, ra_failed, ra_pc, ra_exit>>

et_vars == <<et_fn, et_card, et_pc, et_result>>

vars == <<va_vars, pd_vars, gf_vars, run_vars, ra_vars, et_vars>>

-----------------------------------------------------------------------------
(* Python values *)

None == <<>>

Some(v) == <<v>>

\* dict.get(key): the value, or None when the key is absent.
Get(d, k) == IF k \in DOMAIN d THEN d[k] ELSE None

\* Python truthiness of an optional str: None and "" are falsy.
Truthy(o) == o # None /\ o[1] # ""

\* Python truthiness of an optional datetime: only None is falsy.
TruthyDate(o) == o # None

\* The variables of a component that a specification does not drive.
VaIdle ==
    /\ va_article = <<>>
    /\ va_require_date = FALSE
    /\ va_pc = "idle"
    /\ va_result = FALSE

PdIdle ==
    /\ pd_text = None
    /\ pd_now_year = 0
    /\ pd_pc = "idle"
    /\ pd_result = None

NoFeed == [raised |-> FALSE, entries |-> <<>>]

GfIdle ==
    /\ gf_articles = <<>>
    /\ gf_config = [date_field |-> "date", sort_reverse |-> TRUE]
    /\ gf_pc = "idle"
    /\ gf_result = NoFeed

NoFile == [exists |-> FALSE, intact |-> TRUE, entries |-> <<>>]

RunIdle ==
    /\ site = "none"
    /\ page = <<>>
    /\ now_year = 0
    /\ run = 0
    /\ hash_key = 0
    /\ pc = "idle"
    /\ html_content = None
    /\ main_articles = <<>>
    /\ feed = <<>>
    /\ disk = NoFile
    /\ disk_at_start = NoFile
    /\ writer_calls = 0
    /\ failed = "none"
    /\ env_faults = {}
    /\ ret = None
    /\ escaped = FALSE
    /\ prev = [ret |-> None, feed |-> <<>>]
    /\ fallback_log = {}

RaIdle ==
    /\ ra_listing = <<>>
    /\ ra_i = 0
    /\ ra_runs = <<>>
    /\ ra_successful = <<>>
    /\ ra_failed = <<>>
    /\ ra_pc = "idle"
    /\ ra_exit = None

EtIdle ==
    /\ et_fn = "none"
    /\ et_card = <<>>
    /\ et_pc = "idle"
    /\ et_result = None

\* str.startswith(prefix)
StartsWith(s, p) == Len(s) >= Len(p) /\ SubSeq(s, 1, Len(p)) = p

-----------------------------------------------------------------------------
(* str operations the scrapers use *)

\* The i-th character of s, as a string of length 1.
Char(s, i) == SubSeq(s, i, i)

\* s[i:], for i counted from 1.
From(s, i) == SubSeq(s, i, Len(s))

IsSpace(c) == c \in {" ", "\t", "\n"}

RECURSIVE LStrip(_)
LStrip(s) == IF s # "" /\ IsSpace(Char(s, 1)) THEN LStrip(From(s, 2)) ELSE s

RECURSIVE RStrip(_)
RStrip(s) ==
    IF s # "" /\ IsSpace(Char(s, Len(s))) THEN RStrip(SubSeq(s, 1, Len(s) - 1)) ELSE s

\* str.strip()
StrStrip(s) == RStrip(LStrip(s))

RECURSIVE CollapseSpaces(_)
\* " ".join(s.split()) on a stripped s: every run of white space becomes " ".
CollapseSpaces(s) ==
    IF s = "" THEN ""
    ELSE IF IsSpace(Char(s, 1)) THEN " " \o CollapseSpaces(LStrip(s))
    ELSE Char(s, 1) \o CollapseSpaces(From(s, 2))

\* " ".join(s.strip().split())
NormalizeSpace(s) == CollapseSpaces(StrStrip(s))

RECURSIVE Unescape(_)
\* re.sub(r"\\(.)", r"\1", s): a backslash followed by a character (other
\* than a newline) is dropped and the character kept.
Unescape(s) ==
    IF s = "" THEN ""
    ELSE IF Char(s, 1) = "\\" /\ Len(s) >= 2 /\ Char(s, 2) # "\n"
    THEN Char(s, 2) \o Unescape(From(s, 3))
    ELSE Char(s, 1) \o Unescape(From(s, 2))

LowerLetters == "abcdefghijklmnopqrstuvwxyz"

UpperLetters == "ABCDEFGHIJKLMNOPQRSTUVWXYZ"

\* The place of character c in alphabet, or 0.
IndexIn(c, alphabet) ==
    IF \E i \in 1..Len(alphabet) : Char(alphabet, i) = c
    THEN CHOOSE i \in 1..Len(alphabet) : Char(alphabet, i) = c
    ELSE 0

IsLetter(c) == IndexIn(c, LowerLetters) > 0 \/ IndexIn(c, UpperLetters) > 0

ToUpper(c) == IF IndexIn(c, LowerLetters) > 0 THEN Char(UpperLetters, IndexIn(c, LowerLetters)) ELSE c

ToLower(c) == IF IndexIn(c, UpperLetters) > 0 THEN Char(LowerLetters, IndexIn(c, UpperLetters)) ELSE c

RECURSIVE ReplaceChar(_, _, _)
\* s.replace(old, new) for one-character old and new
ReplaceChar(s, old, new) ==
    IF s = "" THEN ""
    ELSE (IF Char(s, 1) = old THEN new ELSE Char(s, 1)) \o ReplaceChar(From(s, 2), old, new)

RECURSIVE TitleFrom(_, _)
\* str.title(): a letter that follows a non-letter is upper-cased, any other
\* letter lower-cased.  after_letter tells whether the previous character was
\* a letter.
TitleFrom(s, after_letter) ==
    IF s = "" THEN ""
    ELSE LET c == Char(s, 1)
         IN (IF after_letter THEN ToLower(c) ELSE ToUpper(c))
            \o TitleFrom(From(s, 2), IsLetter(c))

StrTitle(s) == TitleFrom(s, FALSE)

\* sep in s
RECURSIVE Contains(_, _)
Contains(s, sep) ==
    IF Len(s) < Len(sep) THEN FALSE
    ELSE StartsWith(s, sep) \/ Contains(From(s, 2), sep)

RECURSIVE Before(_, _)
\* s.split(sep)[0]
Before(s, sep) ==
    IF s = "" \/ StartsWith(s, sep) THEN ""
    ELSE Char(s, 1) \o Before(From(s, 2), sep)

-----------------------------------------------------------------------------
(* utils.validate_article *)

MinTitleLen == 5

validate_article(article, require_date) ==
    IF ~Truthy(Get(article, "title")) \/ Len(article["title"][1]) < MinTitleLen
    THEN FALSE
    ELSE IF ~Truthy(Get(article, "link")) \/ ~StartsWith(article["link"][1], "http")
    THEN FALSE
    ELSE IF require_date /\ ~TruthyDate(Get(article, "date"))
    THEN FALSE
    ELSE TRUE

-----------------------------------------------------------------------------
(* datetime.strptime and utils.parse_date                                  *)
(*                                                                         *)
(* A date text is modelled by what strptime reads in it: its layout (the   *)
(* order of its fields and the punctuation between them), how the month is *)
(* written (abbreviated name, full name, number), the month, day and year  *)
(* it names (year 0 when the layout has none), and whether white space     *)
(* surrounds it.  A text that no format can read has layout "junk".        *)

IsLeap(y) == (y % 4 = 0 /\ y % 100 # 0) \/ y % 400 = 0

DaysInMonth(y, m) ==
    IF m = 2 THEN (IF IsLeap(y) THEN 29 ELSE 28)
    ELSE IF m \in {4, 6, 9, 11} THEN 30 ELSE 31

\* The year strptime assumes when the format has no %Y.
StrptimeDefaultYear == 1900

date_formats == <<
    [layout |-> "M d",    names |-> "abbr", has_year |-> FALSE],  \* "%b %d"
    [layout |-> "M d",    names |-> "full", has_year |-> FALSE],  \* "%B %d"
    [layout |-> "M d, Y", names |-> "abbr", has_year |-> TRUE],   \* "%b %d, %Y"
    [layout |-> "M d, Y", names |-> "full", has_year |-> TRUE],   \* "%B %d, %Y"
    [layout |-> "Y-m-d",  names |-> "num",  has_year |-> TRUE],   \* "%Y-%m-%d"
    [layout |-> "m/d/Y",  names |-> "num",  has_year |-> TRUE],   \* "%m/%d/%Y"
    [layout |-> "d M Y",  names |-> "abbr", has_year |-> TRUE],   \* "%d %b %Y"
    [layout |-> "d M Y",  names |-> "full", has_year |-> TRUE],   \* "%d %B %Y"
    [layout |-> "M d Y",  names |-> "abbr", has_year |-> TRUE],   \* "%b %d %Y"
    [layout |-> "M d Y",  names |-> "full", has_year |-> TRUE] >> \* "%B %d %Y"

\* The ISO format the engineering scraper passes to strptime itself.
IsoFormat == date_formats[5]

\* "May" is both the abbreviated and the full name of month 5.
MonthNameMatches(text, fmt) ==
    \/ text.names = fmt.names
    \/ text.month = 5 /\ text.names \in {"abbr", "full"} /\ fmt.names \in {"abbr", "full"}

\* datetime.strptime(text, fmt): None stands for ValueError.  The text must
\* match the format as a whole (no surrounding white space), and the fields
\* must name a day that exists, in the year read or else in 1900.
strptime(text, fmt) ==
    IF text.pad \/ text.layout # fmt.layout \/ ~MonthNameMatches(text, fmt)
    THEN None
    ELSE LET y == IF fmt.has_year THEN text.year ELSE StrptimeDefaultYear
         IN IF text.day > DaysInMonth(y, text.month)
            THEN None
            ELSE Some([year |-> y, month |-> text.month, day |-> text.day])

\* datetime.replace(year=y): None stands for ValueError.
replace_year(d, y) ==
    IF d.day > DaysInMonth(y, d.month) THEN None ELSE Some([d EXCEPT !.year = y])

\* str.strip()
Strip(text) == [text EXCEPT !.pad = FALSE]

\* One turn of parse_date's loop body: None when the format raised ValueError.
try_format(text, fmt, current_year) ==
    LET date == strptime(text, fmt)
    IN IF date = None THEN None
       ELSE IF ~fmt.has_year THEN replace_year(date[1], current_year)
       ELSE date

RECURSIVE parse_date_from(_, _, _)
parse_date_from(text, i, current_year) ==
    IF i > Len(date_formats) THEN None
    ELSE LET r == try_format(text, date_formats[i], current_year)
         IN IF r # None THEN r ELSE parse_date_from(text, i + 1, current_year)

\* parse_date(date_text), with datetime.now().year as a parameter.
parse_date(date_text, current_year) ==
    IF date_text = None \/ date_text[1].layout = "empty"
    THEN None
    ELSE parse_date_from(Strip(date_text[1]), 1, current_year)

-----------------------------------------------------------------------------
(* parse_date on every date text of a small universe *)

PdMonths == 1..12

PdDays == {1, 7, 28, 29, 30, 31}

PdYears == {2023, 2024}

PdNowYears == {2024, 2025}

DateText(l, n, m, d, y, p) ==
    [layout |-> l, names |-> n, month |-> m, day |-> d, year |-> y, pad |-> p]

EmptyText == DateText("empty", "num", 1, 1, 0, FALSE)

JunkText == DateText("junk", "num", 1, 1, 0, FALSE)

PdTexts ==
    {EmptyText, JunkText}
    \cup { DateText("M d", n, m, d, 0, p) :
             n \in {"abbr", "full"}, m \in PdMonths, d \in PdDays, p \in BOOLEAN }
    \cup { DateText(l, n, m, d, y, FALSE) :
             l \in {"M d, Y", "d M Y", "M d Y"}, n \in {"abbr", "full"},
             m \in PdMonths, d \in PdDays, y \in PdYears }
    \cup { DateText(l, "num", m, d, y, FALSE) :
             l \in {"Y-m-d", "m/d/Y"}, m \in PdMonths, d \in PdDays, y \in PdYears }

PdInit ==
    /\ pd_text \in {None} \cup { Some(t) : t \in PdTexts }
    /\ pd_now_year \in PdNowYears
    /\ pd_pc = "call"
    /\ pd_result = None
    /\ VaIdle
    /\ GfIdle
    /\ RunIdle
    /\ RaIdle
    /\ EtIdle

PdCall ==
    /\ pd_pc = "call"
    /\ pd_pc' = "done"
    /\ pd_result' = parse_date(pd_text, pd_now_year)
    /\ UNCHANGED <<pd_text, pd_now_year, va_vars, gf_vars, run_vars, ra_vars, et_vars>>

PdNext == PdCall

SpecDate == PdInit /\ [][PdNext]_vars

-----------------------------------------------------------------------------
(* C10: for every date text that matches a supported format, parse_date    *)
(* returns a timestamp with the text's month and day, and the text's year  *)
(* or, when the text has none, the current year; this includes every valid *)
(* calendar day of the current year written without a year (a leap day in  *)
(* a leap year).                                                           *)

C10_HasYear(t) == t.layout \in {"M d, Y", "Y-m-d", "m/d/Y", "d M Y", "M d Y"}

C10_Year(t, now) == IF C10_HasYear(t) THEN t.year ELSE now

\* The text is in a supported layout and names a day of the calendar.
C10_ValidText(t, now) ==
    /\ t.layout \in {"M d"} \cup {"M d, Y", "Y-m-d", "m/d/Y", "d M Y", "M d Y"}
    /\ t.day <= DaysInMonth(C10_Year(t, now), t.month)

C10_ParseDateKeepsYMD ==
    (pd_pc = "done" /\ pd_text # None /\ C10_ValidText(pd_text[1], pd_now_year)) =>
        pd_result = Some([year |-> C10_Year(pd_text[1], pd_now_year),
                          month |-> pd_text[1].month, day |-> pd_text[1].day])

-----------------------------------------------------------------------------
(* utils.stable_fallback_date                                              *)
(*                                                                         *)
(* hash(str) is CPython's keyed string hash: the key is drawn afresh when  *)
(* each interpreter process starts (hash randomization), and within one    *)
(* process the hash is a function of the string.  PyHash keeps exactly     *)
(* that: a signed value computed from the process's key and the string's   *)
(* characters, in HashBits bits instead of 64.                             *)

HashBits == 16

HashAlphabet == LowerLetters \o UpperLetters \o "0123456789:/.-_ "

RECURSIVE HashMix(_, _)
HashMix(s, acc) ==
    IF s = "" THEN acc
    ELSE HashMix(From(s, 2),
                 (acc * 31 + IndexIn(Char(s, 1), HashAlphabet) + 1) % (2 ^ HashBits))

PyHash(key, s) ==
    LET u == HashMix(s, (key * 40503) % (2 ^ HashBits))
    IN IF u >= 2 ^ (HashBits - 1) THEN u - 2 ^ HashBits ELSE u

Abs(n) == IF n < 0 THEN -n ELSE n

FallbackWindowDays == 730

FallbackEpoch == [year |-> 2023, month |-> 1, day |-> 1]

RECURSIVE AddDays(_, _)
\* date + timedelta(days=n), n >= 0
AddDays(date, n) ==
    LET left == DaysInMonth(date.year, date.month) - date.day
    IN IF n <= left THEN [date EXCEPT !.day = date.day + n]
       ELSE AddDays(IF date.month = 12
                    THEN [year |-> date.year + 1, month |-> 1, day |-> 1]
                    ELSE [year |-> date.year, month |-> date.month + 1, day |-> 1],
                    n - left - 1)

\* stable_fallback_date(identifier), in the process whose hash key is key
stable_fallback_date(key, identifier) ==
    LET hash_val == Abs(PyHash(key, identifier)) % FallbackWindowDays
    IN AddDays(FallbackEpoch, hash_val)

-----------------------------------------------------------------------------
(* utils.generate_rss_feed                                                 *)
(*                                                                         *)
(* The feed is the sequence of entries in the order generate_rss_feed adds *)
(* them.  An exception raised inside the function is logged and re-raised  *)
(* (lines 255-257): the result is then [raised |-> TRUE].                  *)

\* The order of datetimes.
DateKey(d) == d.year * 10000 + d.month * 100 + d.day

\* a.get(date_field) or a.get("pub_date")
ResolvedDate(a, date_field) ==
    IF TruthyDate(Get(a, date_field)) THEN Get(a, date_field) ELSE Get(a, "pub_date")

HasDate(a, date_field) ==
    TruthyDate(Get(a, date_field)) \/ TruthyDate(Get(a, "pub_date"))

RECURSIVE Filter(_, _, _)
\* [a for a in articles if HasDate(a) = want]
Filter(articles, date_field, want) ==
    IF articles = <<>> THEN <<>>
    ELSE LET rest == Filter(Tail(articles), date_field, want)
         IN IF HasDate(Head(articles), date_field) = want
            THEN <<Head(articles)>> \o rest
            ELSE rest

\* Where list.sort puts x among the already sorted elements: behind every
\* element it does not have to precede, so that equal keys keep their order
\* (also under reverse=True).
RECURSIVE InsertSorted(_, _, _, _)
InsertSorted(x, sorted, field, reverse) ==
    IF sorted = <<>> THEN <<x>>
    ELSE LET kx == DateKey(x[field][1])
             kh == DateKey(Head(sorted)[field][1])
         IN IF (IF reverse THEN kx > kh ELSE kx < kh)
            THEN <<x>> \o sorted
            ELSE <<Head(sorted)>> \o InsertSorted(x, Tail(sorted), field, reverse)

RECURSIVE SortBy(_, _, _, _)
\* list.sort(key=lambda x: x[field], reverse=reverse), on keys that compare.
\* n is the number of leading elements taken.
SortBy(list, n, field, reverse) ==
    IF n = 0 THEN <<>>
    ELSE InsertSorted(list[n], SortBy(list, n - 1, field, reverse), field, reverse)

\* x[actual_date_field] raises KeyError for an article without the key.
SortKeyError(list, field) == \E i \in 1..Len(list) : field \notin DOMAIN list[i]

\* Comparing the keys raises TypeError when one of two or more keys is None.
SortTypeError(list, field) ==
    Len(list) >= 2 /\ \E i \in 1..Len(list) : list[i][field] = None

\* One feed entry (lines 233-250).
FeedEntry(a, date_field) ==
    [title |-> a["title"], description |-> a["description"], link |-> a["link"],
     id |-> a["link"], published |-> ResolvedDate(a, date_field),
     category |-> Get(a, "category"), author |-> Get(a, "author")]

generate_rss_feed(articles, feed_config) ==
    LET date_field == feed_config.date_field
        articles_with_date == Filter(articles, date_field, TRUE)
        articles_without_date == Filter(articles, date_field, FALSE)
        actual_date_field ==
            IF articles_with_date # <<>> /\ date_field \in DOMAIN articles_with_date[1]
            THEN date_field ELSE "pub_date"
    IN IF \/ SortKeyError(articles_with_date, actual_date_field)
          \/ SortTypeError(articles_with_date, actual_date_field)
       THEN [raised |-> TRUE, entries |-> <<>>]
       ELSE LET sorted_articles ==
                    SortBy(articles_with_date, Len(articles_with_date),
                           actual_date_field, feed_config.sort_reverse)
                    \o articles_without_date
            IN [raised |-> FALSE,
                entries |-> [i \in 1..Len(sorted_articles) |->
                                FeedEntry(sorted_articles[i], date_field)]]

-----------------------------------------------------------------------------
(* generate_rss_feed on every article list of a small universe *)

MaxFeedArticles == 3

GfDay(d) == Some([year |-> 2025, month |-> 1, day |-> d])

\* A date key is absent ("absent"), present and None, or present with a date.
GfDateValues == {"absent", "none", "d1", "d2"}

GfWithKey(a, key, v) ==
    IF v = "absent" THEN a
    ELSE [k \in DOMAIN a \cup {key} |->
            IF k # key THEN a[k]
            ELSE IF v = "none" THEN None
            ELSE IF v = "d1" THEN GfDay(1) ELSE GfDay(2)]

\* The i-th article of the list: its link tells the articles apart.
GfArticle(i, date, pub_date) ==
    GfWithKey(
        GfWithKey([title |-> Some("Article " \o ToString(i)),
                   description |-> Some("Summary " \o ToString(i)),
                   link |-> Some("https://a.io/" \o ToString(i))],
                  "date", date),
        "pub_date", pub_date)

\* The article lists of length n.
GfLists(n) ==
    { [i \in 1..n |-> GfArticle(i, shape[i][1], shape[i][2])] :
        shape \in [1..n -> GfDateValues \X GfDateValues] }

GfInit ==
    /\ \E n \in 0..MaxFeedArticles : gf_articles \in GfLists(n)
    /\ gf_config \in [date_field : {"date", "pub_date"}, sort_reverse : BOOLEAN]
    /\ gf_pc = "call"
    /\ gf_result = NoFeed
    /\ VaIdle
    /\ PdIdle
    /\ RunIdle
    /\ RaIdle
    /\ EtIdle

GfCall ==
    /\ gf_pc = "call"
    /\ gf_pc' = "done"
    /\ gf_result' = generate_rss_feed(gf_articles, gf_config)
    /\ UNCHANGED <<gf_articles, gf_config, va_vars, pd_vars, run_vars, ra_vars, et_vars>>

GfNext == GfCall

SpecFeed == GfInit /\ [][GfNext]_vars

-----------------------------------------------------------------------------
(* C2: in the feed generate_rss_feed returns, every dated entry precedes   *)
(* every dateless entry, the dated entries are ordered by date in the      *)
(* configured direction (descending when sort_reverse, else ascending),    *)
(* and entries with equal dates, and dateless entries, keep the order they *)
(* had in the input list.                                                  *)

\* The position in the input list of the article an entry was made from.
C2_InputPos(e) == CHOOSE i \in 1..Len(gf_articles) : gf_articles[i]["link"] = e.link

C2_Ordered(entries, reverse) ==
    \A i, j \in 1..Len(entries) :
        i < j =>
            LET p == entries[i].published
                q == entries[j].published
            IN /\ ~(p = None /\ q # None)
               /\ (p # None /\ q # None) =>
                     IF reverse THEN DateKey(p[1]) >= DateKey(q[1])
                     ELSE DateKey(p[1]) <= DateKey(q[1])
               /\ p = q => C2_InputPos(entries[i]) < C2_InputPos(entries[j])

C2_FeedOrder ==
    (gf_pc = "done" /\ ~gf_result.raised) =>
        C2_Ordered(gf_result.entries, gf_config.sort_reverse)

-----------------------------------------------------------------------------
(* The structured-data scrapers: anthropic_eng_blog.parse_engineering_html *)
(* and anthropic_research_blog.extract_articles / parse_research_html.     *)
(*                                                                         *)
(* The script blob is modelled by what the regular expressions read in it: *)
(* the sequence of article objects, each with its publishedOn text, its    *)
(* slug, and the title, summary and label fields that follow the slug      *)
(* (None when the object has none), and whether the text contains the      *)
(* word "engineeringArticle".                                              *)

Sites == {"engineering", "research", "thinkingmachines"}

SiteOrigin(scraper) ==
    IF scraper = "engineering" THEN "https://www.anthropic.com/engineering/"
    ELSE IF scraper = "research" THEN "https://www.anthropic.com/research/"
    ELSE "https://thinkingmachines.ai"

\* script_content.find('\"current\":\"<slug>\"'): the first object with the slug.
SlugPos(records, slug) ==
    CHOOSE k \in 1..Len(records) :
        /\ records[k].slug = slug
        /\ \A j \in 1..(k - 1) : records[j].slug # slug

\* re.search of a field in search_section: the first such field at or after
\* the slug found, or None.  (The section is 2000 characters long; the blobs
\* of the model are shorter.)
SearchField(records, from, field) ==
    IF \E k \in from..Len(records) : records[k][field] # None
    THEN LET k == CHOOSE k \in from..Len(records) :
                    /\ records[k][field] # None
                    /\ \A j \in from..(k - 1) : records[j][field] = None
         IN records[k][field]
    ELSE None

\* Lines 54-102 (engineering) and 25-72 (research) for the i-th match: the
\* article built from it, or raised when the try block raises.
sd_candidate(scraper, records, i, current_year) ==
    LET published_date == records[i].publishedOn
        slug == records[i].slug
        link == SiteOrigin(scraper) \o slug
        slug_pos == SlugPos(records, slug)
        title_match == SearchField(records, slug_pos, "title")
        title0 == IF title_match # None THEN title_match[1]
                  ELSE StrTitle(ReplaceChar(slug, "-", " "))
        title == IF title0 # "" THEN Unescape(title0) ELSE title0
        summary_match == SearchField(records, slug_pos, "summary")
        description0 == IF summary_match # None THEN summary_match[1] ELSE title
        description == IF description0 # "" THEN Unescape(description0) ELSE description0
        date == IF scraper = "engineering" THEN strptime(published_date, IsoFormat)
                ELSE parse_date(Some(published_date), current_year)
        category_match == SearchField(records, slug_pos, "label")
        category == IF scraper = "engineering" THEN "Engineering"
                    ELSE IF category_match # None THEN category_match[1] ELSE "Research"
    IN [raised |-> scraper = "engineering" /\ date = None,
        article |-> [title |-> Some(title),
                     link |-> Some(link),
                     description |-> Some(IF description # "" THEN description ELSE title),
                     date |-> date,
                     category |-> Some(category)]]

RECURSIVE sd_loop_break(_, _, _, _)
\* The loop as it would be if a raising candidate ended it.
sd_loop_break(scraper, records, i, current_year) ==
    IF i > Len(records) THEN <<>>
    ELSE LET c == sd_candidate(scraper, records, i, current_year)
             rest == sd_loop_break(scraper, records, i + 1, current_year)
         IN IF c.raised THEN <<>>
            ELSE IF validate_article(c.article, TRUE) THEN <<c.article>> \o rest
            ELSE rest

RECURSIVE sd_loop(_, _, _, _)
\* The for loop over the matches, from the i-th on: the articles appended.
sd_loop(scraper, records, i, current_year) ==
    IF i > Len(records) THEN <<>>
    ELSE LET c == sd_candidate(scraper, records, i, current_year)
             rest == sd_loop(scraper, records, i + 1, current_year)
         IN IF c.raised THEN rest                            \* except: continue
            ELSE IF validate_article(c.article, TRUE) THEN <<c.article>> \o rest
            ELSE rest

\* The lookup as it would be if it took any script tag, whatever its text.
ScriptFound_any_script(scraper, html) == html.script # None

\* The script tag the scraper looks for: "publishedOn" in script.string (and
\* "engineeringArticle" too, for the engineering page).
ScriptFound(scraper, html) ==
    /\ html.script # None
    /\ html.script[1].records # <<>>
    /\ scraper = "engineering" => html.script[1].marker

\* parse_engineering_html(html_content), past BeautifulSoup
parse_engineering_html(html, current_year) ==
    IF ~ScriptFound("engineering", html) THEN <<>>
    ELSE LET articles == sd_loop("engineering", html.script[1].records, 1, current_year)
         IN SortBy(articles, Len(articles), "date", TRUE)

\* parse_research_html(html_content), past BeautifulSoup: the final sort is
\* commented out in the source.
parse_research_html(html, current_year) ==
    IF ~ScriptFound("research", html) THEN <<>>
    ELSE sd_loop("research", html.script[1].records, 1, current_year)

-----------------------------------------------------------------------------
(* The DOM-scan scraper: thinkingmachines_blog                             *)
(*                                                                         *)
(* The page is the sequence of "li a.post-item-link" elements; each is     *)
(* modelled by what the scraper reads from it: its href attribute, the     *)
(* text of its time.desktop-time, div.post-title and div.author-date       *)
(* children (None when the child is absent) and its whole text.            *)

\* thinkingmachines_blog.extract_title(card)
tm_extract_title(card) ==
    LET elem == card.post_title
        title == IF elem # None THEN NormalizeSpace(elem[1]) ELSE ""
        text == NormalizeSpace(card.text)
    IN IF elem # None /\ StrStrip(elem[1]) # "" /\ Len(title) >= MinTitleLen
       THEN Some(title)
       ELSE IF Len(text) >= MinTitleLen THEN Some(text)
       ELSE None

\* The character that parts author from date in div.author-date: the middle
\* dot U+00B7 of the source, for which an ASCII character stands here.
AuthorSeparator == "|"

\* Lines 50-93 for one item whose link is new: the article built from it and
\* whether stable_fallback_date was called.
tm_candidate(item, link, key, current_year) ==
    LET parsed == parse_date(item.time_text, current_year)
        pub_date == IF parsed # None THEN parsed[1]
                    ELSE stable_fallback_date(key, link)
        extracted == tm_extract_title(item)
        title == IF extracted # None THEN extracted[1] ELSE "Untitled"
        author0 == IF item.author_date # None THEN item.author_date[1] ELSE ""
        author1 == IF Contains(author0, AuthorSeparator)
                   THEN StrStrip(Before(author0, AuthorSeparator))
                   ELSE author0
        author_text == IF author1 = "" THEN "Thinking Machines Lab" ELSE author1
    IN [fallback |-> parsed = None,
        article |-> [title |-> Some(title),
                     link |-> Some(link),
                     description |-> Some("by " \o author_text),
                     pub_date |-> Some(pub_date),
                     author |-> Some(author_text)]]

RECURSIVE tm_loop(_, _, _, _, _)
\* The for loop over post_items, from the i-th on, with the links seen so
\* far: the articles appended and the stable_fallback_date calls made, as
\* <<identifier, date>> pairs.
tm_loop(items, i, seen_links, key, current_year) ==
    IF i > Len(items) THEN [articles |-> <<>>, fallbacks |-> {}]
    ELSE LET item == items[i]
             href == IF item.href # None THEN item.href[1] ELSE ""
             link == IF StartsWith(href, "/") THEN SiteOrigin("thinkingmachines") \o href
                     ELSE href
         IN IF href = "" \/ link \in seen_links
            THEN tm_loop(items, i + 1, seen_links, key, current_year)
            ELSE LET c == tm_candidate(item, link, key, current_year)
                     rest == tm_loop(items, i + 1, seen_links \cup {link}, key, current_year)
                 IN [articles |-> IF validate_article(c.article, FALSE)
                                  THEN <<c.article>> \o rest.articles
                                  ELSE rest.articles,
                     fallbacks |-> IF c.fallback
                                   THEN {<<link, c.article["pub_date"][1]>>} \cup rest.fallbacks
                                   ELSE rest.fallbacks]

\* thinkingmachines_blog.extract_articles(soup)
tm_extract_articles(html, key, current_year) ==
    tm_loop(html.items, 1, {}, key, current_year)

-----------------------------------------------------------------------------
(* validate_article on every article of a small universe *)

VaTitles == {None, Some(""), Some("Ab"), Some("Abcd"), Some("Abcde"), Some("Hello World")}

VaLinks == {None, Some(""), Some("/blog/a"), Some("ftp://a.io/x"), Some("httpbin.html"),
            Some("http://a.io/x"), Some("https://a.io/x")}

VaDates == {None, Some([year |-> 2025, month |-> 1, day |-> 1])}

\* The dicts over a subset of the keys title, link, date: a key may be absent,
\* or present with the value None.
Restrict(d, ks) == [k \in ks |-> d[k]]

VaArticles ==
    { Restrict(d, ks) : d \in [title : VaTitles, link : VaLinks, date : VaDates],
                        ks \in SUBSET {"title", "link", "date"} }

VaInit ==
    /\ va_article \in VaArticles
    /\ va_require_date \in BOOLEAN
    /\ va_pc = "call"
    /\ va_result = FALSE
    /\ PdIdle
    /\ GfIdle
    /\ RunIdle
    /\ RaIdle
    /\ EtIdle

VaCall ==
    /\ va_pc = "call"
    /\ va_pc' = "done"
    /\ va_result' = validate_article(va_article, va_require_date)
    /\ UNCHANGED <<va_article, va_require_date, pd_vars, gf_vars, run_vars, ra_vars, et_vars>>

VaNext == VaCall

SpecValidate == VaInit /\ [][VaNext]_vars

-----------------------------------------------------------------------------
(* main() of a site scraper, run as successive processes on one page *)

MaxItems == 2

MaxRuns == 2

\* The hash keys a process may draw.
HashKeys == {0, 1}

\* The year of the clock while the scraper runs.
RunNowYears == {2025}

IsoText(y, m, d) == DateText("Y-m-d", "num", m, d, y, FALSE)

SdRecord(pub, slug, title, summary, label) ==
    [publishedOn |-> pub, slug |-> slug, title |-> title, summary |-> summary,
     label |-> label]

\* Article objects of a script blob: well formed, without a title field,
\* with a date that is not a calendar day, with a slug that occurs twice,
\* with a date in another format and escaped characters.
SdRecords ==
    { SdRecord(IsoText(2025, 1, 1), "alpha-post", Some("Hello World"),
               Some("A \\\"first\\\" post"), None),
      SdRecord(IsoText(2025, 1, 2), "beta", None, None, Some("Policy")),
      SdRecord(IsoText(2025, 2, 30), "gamma-notes", Some("Gamma Notes"), None, None),
      SdRecord(IsoText(2025, 1, 3), "alpha-post", None, None, None),
      SdRecord(DateText("M d, Y", "abbr", 1, 5, 2025, FALSE), "delta-post",
               Some("Q\\&A time"), None, None) }

TmItem(href, time_text, post_title, text, author_date) ==
    [href |-> href, time_text |-> time_text, post_title |-> post_title, text |-> text,
     author_date |-> author_date]

\* Post items of a listing: a root-relative link with date, title and
\* author; the same link again; an absolute link with an unreadable date; a
\* relative link that begins with the letters http; no href; a relative link.
TmItems ==
    { TmItem(Some("/blog/a"), Some(DateText("M d, Y", "abbr", 11, 7, 2025, FALSE)),
             Some("  Modular \n  Manifolds "), "Modular Manifolds Ann Lee Nov 7",
             Some("Ann Lee " \o AuthorSeparator \o " Nov 7")),
      TmItem(Some("/blog/a"), None, Some("Dup"), " Dup ", None),
      TmItem(Some("https://x.ai/b"), Some(JunkText), None, "On scaling", Some("")),
      TmItem(Some("httpbin.html"), Some(DateText("M d", "abbr", 11, 7, 0, FALSE)),
             Some("HTTP notes"), "HTTP notes", None),
      TmItem(None, None, Some("No link here"), "No link here", None),
      TmItem(Some("blog/rel"), None, Some("Relative"), "Relative", None) }

\* The sequences over S of length at most n.
SeqsUpTo(S, n) == UNION { [1..k -> S] : k \in 0..n }

Pages(s) ==
    IF s = "thinkingmachines"
    THEN { [items |-> items] : items \in SeqsUpTo(TmItems, MaxItems) }
    ELSE { [script |-> None] }
         \cup { [script |-> Some([marker |-> m, records |-> rs])] :
                  m \in BOOLEAN, rs \in SeqsUpTo(SdRecords, MaxItems) }

\* The feed_config each main() passes to generate_rss_feed.
FeedConfig(s) ==
    [date_field |-> IF s = "thinkingmachines" THEN "pub_date" ELSE "date",
     sort_reverse |-> FALSE]

\* The require_date each scraper passes to validate_article.
RequireDate(s) == s # "thinkingmachines"

\* fetch_content as it would be without raise_for_status and the re-raise.
fetch_content_no_raise(outcome, served) == [raised |-> FALSE, text |-> Some(served)]

\* fetch_content(url): the text, or raised for a RequestException (a network
\* error, or raise_for_status on a response that is not 2xx).
fetch_content(outcome, served) ==
    IF outcome = "ok" THEN [raised |-> FALSE, text |-> Some(served)]
    ELSE [raised |-> TRUE, text |-> None]

\* The parse step of the site, past BeautifulSoup.
ParseSite(s, html, key, year) ==
    IF s = "engineering" THEN [articles |-> parse_engineering_html(html, year), fallbacks |-> {}]
    ELSE IF s = "research" THEN [articles |-> parse_research_html(html, year), fallbacks |-> {}]
    ELSE tm_extract_articles(html, key, year)

\* main as it would be if its except clause re-raised.
main_except_reraise == [ret |-> None, escaped |-> TRUE]

\* main's "except Exception": log the error and return False.
main_except == [ret |-> Some(FALSE), escaped |-> FALSE]

\* An exception raised in stage reaches main's except clause.
Fail(stage) ==
    /\ pc' = "done"
    /\ failed' = stage
    /\ ret' = main_except.ret
    /\ escaped' = main_except.escaped

RunInit ==
    /\ site \in Sites
    /\ page \in Pages(site)
    /\ now_year \in RunNowYears
    /\ run = 1
    /\ hash_key \in HashKeys
    /\ pc = "start"
    /\ html_content = None
    /\ main_articles = <<>>
    /\ feed = <<>>
    /\ disk = NoFile
    /\ disk_at_start = NoFile
    /\ writer_calls = 0
    /\ failed = "none"
    /\ env_faults = {}
    /\ ret = None
    /\ escaped = FALSE
    /\ prev = [ret |-> None, feed |-> <<>>]
    /\ fallback_log = {}
    /\ VaIdle
    /\ PdIdle
    /\ GfIdle
    /\ RaIdle
    /\ EtIdle

\* html_content = fetch_content(url)
Fetch ==
    /\ pc = "start"
    /\ \E outcome \in {"ok", "http_error", "network_error"} :
          LET r == fetch_content(outcome, page)
          IN /\ env_faults' = IF outcome = "ok" THEN env_faults ELSE env_faults \cup {outcome}
             /\ IF r.raised
                THEN Fail("fetch") /\ UNCHANGED html_content
                ELSE /\ html_content' = r.text
                     /\ pc' = "fetched"
                     /\ UNCHANGED <<failed, ret, escaped>>
    /\ UNCHANGED <<site, page, now_year, run, hash_key, main_articles, feed, disk,
                   disk_at_start, writer_calls, prev, fallback_log>>
    /\ UNCHANGED <<va_vars, pd_vars, gf_vars, ra_vars, et_vars>>

\* articles = parse_<site>_html(html_content), and the "if not articles"
\* that follows.  BeautifulSoup may raise; the parse function logs and
\* re-raises.
Parse ==
    /\ pc = "fetched"
    /\ \E soup_raises \in BOOLEAN :
          IF soup_raises
          THEN /\ env_faults' = env_faults \cup {"soup"}
               /\ Fail("parse")
               /\ UNCHANGED <<main_articles, fallback_log>>
          ELSE LET r == ParseSite(site, html_content[1], hash_key, now_year)
               IN /\ main_articles' = r.articles
                  /\ fallback_log' =
                        fallback_log \cup r.fallbacks
                  /\ IF r.articles = <<>>
                     THEN /\ pc' = "done"
                          /\ ret' = Some(FALSE)
                          /\ UNCHANGED <<failed, escaped, env_faults>>
                     ELSE /\ pc' = "parsed"
                          /\ UNCHANGED <<failed, ret, escaped, env_faults>>
    /\ UNCHANGED <<site, page, now_year, run, hash_key, html_content, feed, disk,
                   disk_at_start, writer_calls, prev>>
    /\ UNCHANGED <<va_vars, pd_vars, gf_vars, ra_vars, et_vars>>

\* feed = generate_rss_feed(articles, feed_config).  The feed library may
\* raise besides the function's own code; either way the function logs and
\* re-raises.
Generate ==
    /\ pc = "parsed"
    /\ \E library_raises \in BOOLEAN :
          LET r == generate_rss_feed(main_articles, FeedConfig(site))
          IN /\ env_faults' = IF library_raises THEN env_faults \cup {"library"}
                              ELSE env_faults
             /\ IF library_raises \/ r.raised
                THEN Fail("assemble") /\ UNCHANGED feed
                ELSE /\ feed' = r.entries
                     /\ pc' = "generated"
                     /\ UNCHANGED <<failed, ret, escaped>>
    /\ UNCHANGED <<site, page, now_year, run, hash_key, html_content, main_articles, disk,
                   disk_at_start, writer_calls, prev, fallback_log>>
    /\ UNCHANGED <<va_vars, pd_vars, gf_vars, ra_vars, et_vars>>

\* save_rss_feed(feed, feed_config) and "return True".  The write may fail
\* before the file is opened, or after, leaving a truncated file.
Save ==
    /\ pc = "generated"
    /\ writer_calls' = writer_calls + 1
    /\ \E outcome \in {"ok", "error_before_open", "error_in_write"} :
          IF outcome = "ok"
          THEN /\ disk' = [exists |-> TRUE, intact |-> TRUE, entries |-> feed]
               /\ pc' = "done"
               /\ ret' = Some(TRUE)
               /\ UNCHANGED <<failed, escaped, env_faults>>
          ELSE /\ disk' = IF outcome = "error_before_open" THEN disk
                          ELSE [exists |-> TRUE, intact |-> FALSE, entries |-> <<>>]
               /\ env_faults' = env_faults \cup {outcome}
               /\ Fail("write")
    /\ UNCHANGED <<site, page, now_year, run, hash_key, html_content, main_articles, feed,
                   disk_at_start, prev, fallback_log>>
    /\ UNCHANGED <<va_vars, pd_vars, gf_vars, ra_vars, et_vars>>

\* The script is run again: a new process, with a new hash key, on the same
\* page.
NextRun ==
    /\ pc = "done"
    /\ run < MaxRuns
    /\ run' = run + 1
    /\ hash_key' \in HashKeys
    /\ pc' = "start"
    /\ html_content' = None
    /\ main_articles' = <<>>
    /\ feed' = <<>>
    /\ disk_at_start' = disk
    /\ writer_calls' = 0
    /\ failed' = "none"
    /\ env_faults' = {}
    /\ ret' = None
    /\ escaped' = FALSE
    /\ prev' = [ret |-> ret, feed |-> feed]
    /\ UNCHANGED <<site, page, now_year, disk, fallback_log>>
    /\ UNCHANGED <<va_vars, pd_vars, gf_vars, ra_vars, et_vars>>

RunNext == Fetch \/ Parse \/ Generate \/ Save \/ NextRun

Spec == RunInit /\ [][RunNext]_vars

-----------------------------------------------------------------------------
(* C1: validate_article returns false exactly when the title is missing or *)
(* shorter than 5 characters, or the link is missing or does not start     *)
(* with http:// or https://, or (require_date) the date is missing or      *)
(* null; it returns true for every other article.                          *)

HasHttpScheme(o) ==
    o # None /\ (StartsWith(o[1], "http://") \/ StartsWith(o[1], "https://"))

C1_Expected(a, rd) ==
    /\ Get(a, "title") # None
    /\ Len(Get(a, "title")[1]) >= 5
    /\ HasHttpScheme(Get(a, "link"))
    /\ (rd => Get(a, "date") # None)

C1_ValidateMatchesRules ==
    va_pc = "done" => va_result = C1_Expected(va_article, va_require_date)

-----------------------------------------------------------------------------
(* Where a run stands *)

\* The parse step of the current process has returned a list.
ParseReturned ==
    /\ html_content # None
    /\ pc \in {"parsed", "generated", "done"}
    /\ failed # "parse"

EnvFetchFailed == env_faults \cap {"http_error", "network_error"} # {}

-----------------------------------------------------------------------------
(* C3: the list of article records one scrape returns never contains two   *)
(* records with the same link, for every scraper and every page.           *)

C3_NoDuplicateLinks ==
    ParseReturned =>
        \A i, j \in 1..Len(main_articles) :
            i < j => main_articles[i]["link"] # main_articles[j]["link"]

-----------------------------------------------------------------------------
(* C4: main() always ends by returning a boolean and lets no exception     *)
(* escape; whichever stage fails (fetch, parse, feed assembly, feed        *)
(* write), the value returned is False.                                    *)

C4_MainReturnsBool ==
    /\ ~escaped
    /\ pc = "done" => ret \in {Some(TRUE), Some(FALSE)}
    /\ pc # "done" => (ret = None /\ pc \in {"start", "fetched", "parsed", "generated"})
    /\ (env_faults # {} \/ failed # "none") => (pc = "done" /\ ret = Some(FALSE))

\* The feed write fails in a second run, after a first run that succeeded.
C4_Witness ==
    /\ run = 2
    /\ prev.ret = Some(TRUE)
    /\ pc = "done"
    /\ failed = "write"
    /\ ret = Some(FALSE)

-----------------------------------------------------------------------------
(* C5: in a run whose fetch fails (a network error, or a response that is  *)
(* not 2xx), the scraper reports failure, save_rss_feed is never called,   *)
(* and the feed file is left exactly as it was before the run.             *)

C5_FetchFailureWritesNothing ==
    EnvFetchFailed =>
        /\ pc = "done"
        /\ ret = Some(FALSE)
        /\ writer_calls = 0
        /\ disk = disk_at_start

\* An HTTP error in a second run, with the first run's feed file on disk.
C5_Witness ==
    /\ run = 2
    /\ "http_error" \in env_faults
    /\ pc = "done"
    /\ disk.exists
    /\ disk.entries # <<>>

-----------------------------------------------------------------------------
(* C6: a failure while extracting or parsing one candidate entry skips     *)
(* only that entry: the scrape does not raise, and every other candidate   *)
(* that is extractable and passes validation is in the returned list.  (In *)
(* the DOM scraper a candidate is an item with an href whose link no       *)
(* earlier item had: the scraper keeps one record per link.)               *)

C6_InList(article) == \E k \in 1..Len(main_articles) : main_articles[k] = article

C6_SdRaised(i) == sd_candidate(site, page.script[1].records, i, now_year).raised

C6_SdKept ==
    ScriptFound(site, page) =>
        \A i \in 1..Len(page.script[1].records) :
            LET c == sd_candidate(site, page.script[1].records, i, now_year)
            IN (~c.raised /\ validate_article(c.article, TRUE)) => C6_InList(c.article)

C6_TmHref(i) == IF page.items[i].href # None THEN page.items[i].href[1] ELSE ""

C6_TmLink(i) ==
    IF StartsWith(C6_TmHref(i), "/") THEN "https://thinkingmachines.ai" \o C6_TmHref(i)
    ELSE C6_TmHref(i)

C6_TmKept ==
    \A i \in 1..Len(page.items) :
        (/\ C6_TmHref(i) # ""
         /\ \A j \in 1..(i - 1) : C6_TmLink(j) # C6_TmLink(i)) =>
            LET c == tm_candidate(page.items[i], C6_TmLink(i), hash_key, now_year)
            IN validate_article(c.article, FALSE) => C6_InList(c.article)

C6_EntryFailureSkipsOnlyThatEntry ==
    /\ (html_content # None /\ pc # "fetched" /\ "soup" \notin env_faults) => failed # "parse"
    /\ ParseReturned => IF site = "thinkingmachines" THEN C6_TmKept ELSE C6_SdKept

\* The engineering scrape of a page on which one candidate's publishedOn is
\* unparsable and another candidate is good: the scrape returned the other.
C6_Witness ==
    /\ site = "engineering"
    /\ ParseReturned
    /\ ScriptFound(site, page)
    /\ \E i, j \in 1..Len(page.script[1].records) :
          /\ C6_SdRaised(i)
          /\ ~C6_SdRaised(j)
          /\ C6_InList(sd_candidate(site, page.script[1].records, j, now_year).article)

-----------------------------------------------------------------------------
(* C7: every record of the list a scrape returns satisfies                 *)
(* validate_article under the site's date policy: its title has length at  *)
(* least 5, its link is an absolute HTTP(S) URL, and on the date-requiring *)
(* sites (engineering, research) its date is not null.                     *)

C7_ReturnedRecordsValid ==
    ParseReturned =>
        \A k \in 1..Len(main_articles) :
            LET a == main_articles[k]
            IN /\ validate_article(a, RequireDate(site))
               /\ Len(a["title"][1]) >= 5
               /\ HasHttpScheme(a["link"])
               /\ RequireDate(site) => Get(a, "date") # None

-----------------------------------------------------------------------------
(* C8: stable_fallback_date returns the same date for the same identifier  *)
(* on every call, also in different runs (processes) of the scraper, and   *)
(* the date lies in the 730 days from 2023-01-01 on (to 2024-12-30).       *)

C8_FallbackDateStable ==
    /\ \A e1, e2 \in fallback_log : e1[1] = e2[1] => e1[2] = e2[2]
    /\ \A e \in fallback_log :
          /\ DateKey(e[2]) >= DateKey([year |-> 2023, month |-> 1, day |-> 1])
          /\ DateKey(e[2]) <= DateKey([year |-> 2024, month |-> 12, day |-> 30])

-----------------------------------------------------------------------------
(* C9: two runs of the same scraper on the same page produce the same      *)
(* feed: the same entries, with the same title, link, description, date,   *)
(* category and author, in the same order.                                 *)

C9_RerunSameFeed ==
    (run = 2 /\ pc = "done" /\ ret = Some(TRUE) /\ prev.ret = Some(TRUE)) =>
        feed = prev.feed

-----------------------------------------------------------------------------
(* run_all_feeds: every script of the directory run as a child process *)

\* str.endswith(suffix)
EndsWith(s, p) == Len(s) >= Len(p) /\ SubSeq(s, Len(s) - Len(p) + 1, Len(s)) = p

\* os.path.basename(__file__) in run_all_feeds.py
RaSelf == "run_all_feeds.py"

ScraperScripts ==
    {"anthropic_eng_blog.py", "anthropic_research_blog.py", "thinkingmachines_blog.py"}

\* What os.listdir finds in feed_generators.
RaFiles == ScraperScripts \cup {"utils.py", RaSelf, "__pycache__"}

\* The listings: the files in any order.
RaListings ==
    { l \in [1..Cardinality(RaFiles) -> RaFiles] :
        \A i, j \in 1..Cardinality(RaFiles) : i # j => l[i] # l[j] }

skip_scripts == {}

\* The test of lines 25-28: the file is run.
RaEligible(filename) ==
    /\ EndsWith(filename, ".py")
    /\ filename # RaSelf
    /\ filename \notin skip_scripts

\* How a child process can end: main() returned True, main() returned
\* False, the module has no main to call (utils.py), or an exception left
\* the module before main was entered (a failed import).
RaOutcomes(filename) ==
    IF filename \in ScraperScripts THEN {"main_true", "main_false", "import_error"}
    ELSE {"no_main", "import_error"}

\* The exit status of "python script": the script's last statement is a
\* bare main(), whose return value is dropped, so the status is 0 unless an
\* exception left the module.
script_returncode(outcome) == IF outcome = "import_error" THEN 1 ELSE 0

\* Lines 53-61: the return value.
run_all_feeds_return(failed_scripts) == IF failed_scripts # <<>> THEN 1 ELSE 0

RaInit ==
    /\ ra_listing \in RaListings
    /\ ra_i = 1
    /\ ra_runs = <<>>
    /\ ra_successful = <<>>
    /\ ra_failed = <<>>
    /\ ra_pc = "loop"
    /\ ra_exit = None
    /\ VaIdle
    /\ PdIdle
    /\ GfIdle
    /\ RunIdle
    /\ EtIdle

\* One turn of the for loop on a file that is not run.
RaSkip ==
    /\ ra_pc = "loop"
    /\ ra_i <= Len(ra_listing)
    /\ ~RaEligible(ra_listing[ra_i])
    /\ ra_i' = ra_i + 1
    /\ UNCHANGED <<ra_listing, ra_runs, ra_successful, ra_failed, ra_pc, ra_exit>>
    /\ UNCHANGED <<va_vars, pd_vars, gf_vars, run_vars, et_vars>>

\* One turn of the for loop on a script: subprocess.run and the test of its
\* returncode.
RaRunScript ==
    /\ ra_pc = "loop"
    /\ ra_i <= Len(ra_listing)
    /\ RaEligible(ra_listing[ra_i])
    /\ \E outcome \in RaOutcomes(ra_listing[ra_i]) :
          /\ ra_runs' = Append(ra_runs, <<ra_listing[ra_i], outcome>>)
          /\ IF script_returncode(outcome) = 0
             THEN /\ ra_successful' = Append(ra_successful, ra_listing[ra_i])
                  /\ UNCHANGED ra_failed
             ELSE /\ ra_failed' = Append(ra_failed, ra_listing[ra_i])
                  /\ UNCHANGED ra_successful
    /\ ra_i' = ra_i + 1
    /\ UNCHANGED <<ra_listing, ra_pc, ra_exit>>
    /\ UNCHANGED <<va_vars, pd_vars, gf_vars, run_vars, et_vars>>

\* The summary and the return.
RaReturn ==
    /\ ra_pc = "loop"
    /\ ra_i > Len(ra_listing)
    /\ ra_pc' = "done"
    /\ ra_exit' = Some(run_all_feeds_return(ra_failed))
    /\ UNCHANGED <<ra_listing, ra_i, ra_runs, ra_successful, ra_failed>>
    /\ UNCHANGED <<va_vars, pd_vars, gf_vars, run_vars, et_vars>>

RaNext == RaSkip \/ RaRunScript \/ RaReturn

SpecRunAll == RaInit /\ [][RaNext]_vars

-----------------------------------------------------------------------------
(* C11: run_all_feeds runs every feed script once whatever the earlier     *)
(* scripts did, counts every run in exactly one of successful_scripts and  *)
(* failed_scripts, and returns 1 if any script failed (its scraper         *)
(* reported failure, or the process died) and 0 only if every script       *)
(* succeeded.                                                              *)

\* How often x occurs in the sequence q.
C11_Count(q, x) == Cardinality({ k \in 1..Len(q) : q[k] = x })

C11_RanScripts == { ra_runs[k][1] : k \in 1..Len(ra_runs) }

C11_AnyFailed ==
    \E k \in 1..Len(ra_runs) : ra_runs[k][2] \in {"main_false", "import_error"}

C11_ExitCodeReflectsFailures ==
    ra_pc = "done" =>
        /\ \A f \in RaFiles :
              C11_Count([k \in 1..Len(ra_runs) |-> ra_runs[k][1]], f)
                 = IF f \in ScraperScripts THEN 1 ELSE C11_Count(<<"utils.py">>, f)
        /\ \A f \in C11_RanScripts :
              C11_Count(ra_successful, f) + C11_Count(ra_failed, f) = 1
        /\ ra_exit = Some(IF C11_AnyFailed THEN 1 ELSE 0)

-----------------------------------------------------------------------------
(* C12: the article list a scrape returns is sorted by date: every two     *)
(* adjacent records are in the order the site's feed_config asks for       *)
(* (descending when sort_reverse, else ascending), for all three scrapers. *)

\* The date of a returned record, under the site's date_field.
C12_Date(a) == DateKey(a[FeedConfig(site).date_field][1])

C12_ScrapeSorted ==
    ParseReturned =>
        \A i \in 1..(Len(main_articles) - 1) :
            IF FeedConfig(site).sort_reverse
            THEN C12_Date(main_articles[i]) >= C12_Date(main_articles[i + 1])
            ELSE C12_Date(main_articles[i]) <= C12_Date(main_articles[i + 1])

-----------------------------------------------------------------------------
(* C13: when the data anchor is absent from the page (no script element    *)
(* with the known field names, for the structured-data scrapers; no entry  *)
(* node, for the DOM scraper) the parse step returns an empty list without *)
(* raising, and main() returns False on the "no articles found" path       *)
(* without calling generate_rss_feed or save_rss_feed.                     *)

C13_AnchorAbsent ==
    IF site = "thinkingmachines" THEN page.items = <<>>
    ELSE \/ page.script = None
         \/ page.script[1].records = <<>>
         \/ (site = "engineering" /\ ~page.script[1].marker)

\* The parse step of the current process has been taken and BeautifulSoup
\* did not fail.
C13_Parsed == html_content # None /\ pc # "fetched" /\ "soup" \notin env_faults

C13_NoAnchorNoFeed ==
    (C13_AnchorAbsent /\ C13_Parsed) =>
        /\ failed = "none"
        /\ main_articles = <<>>
        /\ pc = "done"
        /\ ret = Some(FALSE)
        /\ env_faults = {}
        /\ feed = <<>>
        /\ writer_calls = 0
        /\ disk = disk_at_start

\* An engineering page whose script has article records but not the
\* "engineeringArticle" field name has been parsed.
C13_Witness ==
    /\ site = "engineering"
    /\ page.script # None
    /\ page.script[1].records # <<>>
    /\ ~page.script[1].marker
    /\ C13_Parsed
    /\ ret = Some(FALSE)

-----------------------------------------------------------------------------
(* C15: on every list whose records each have a title, a description, a    *)
(* link and a date that is not null under the configured date_field or     *)
(* under "pub_date" (different records may use different keys, or have a   *)
(* null date_field beside a pub_date), generate_rss_feed does not raise    *)
(* and returns a feed with exactly one entry for each record.              *)

C15_AllDated ==
    \A i \in 1..Len(gf_articles) :
        \/ Get(gf_articles[i], gf_config.date_field) # None
        \/ Get(gf_articles[i], "pub_date") # None

C15_DatedListsAssemble ==
    (gf_pc = "done" /\ C15_AllDated) =>
        /\ ~gf_result.raised
        /\ Len(gf_result.entries) = Len(gf_articles)

-----------------------------------------------------------------------------
(* extract_title (utils, and the copy in thinkingmachines_blog) on every   *)
(* card of a small universe                                                *)
(*                                                                         *)
(* A card is the sequence of the elements of its subtree, in document      *)
(* order: each with its tag, its class attribute (None when it has none)   *)
(* and its text.  The card's own text is the texts in that order.          *)

MaxCardNodes == 2

\* A selector: a tag ("*" for any) and a test of the class attribute.
Selector(tag, op, value) == [tag |-> tag, op |-> op, value |-> value]

\* The selectors of utils.extract_title, in the order they are tried.
utils_selectors ==
    << Selector("h3", "any", ""),
       Selector("h2", "any", ""),
       Selector("h1", "any", ""),
       Selector("*", "token", "Card_headline__reaoT"),
       Selector("h3", "contains", "headline"),
       Selector("h2", "contains", "headline"),
       Selector("h3", "contains", "title"),
       Selector("h2", "contains", "title") >>

\* The selectors of thinkingmachines_blog.extract_title.
tm_selectors == << Selector("div", "equals", "post-title") >>

\* Whether the element matches the selector.  The class attributes of the
\* universe have one token, so a class token is the whole value.
SelectorMatches(node, sel) ==
    /\ sel.tag = "*" \/ node.tag = sel.tag
    /\ CASE sel.op = "any" -> TRUE
         [] sel.op = "token" -> node.class = Some(sel.value)
         [] sel.op = "equals" -> node.class = Some(sel.value)
         [] sel.op = "contains" -> node.class # None /\ Contains(node.class[1], sel.value)

\* card.select_one(selector): the first matching element, or None.
select_one(card, sel) ==
    IF \E k \in 1..Len(card) : SelectorMatches(card[k], sel)
    THEN LET first == CHOOSE k \in 1..Len(card) :
                         /\ SelectorMatches(card[k], sel)
                         /\ \A j \in 1..(k - 1) : ~SelectorMatches(card[j], sel)
         IN Some(card[first])
    ELSE None

RECURSIVE CardTextFrom(_, _)
\* card.text: the texts of the elements from the k-th on.
CardTextFrom(card, k) ==
    IF k > Len(card) THEN "" ELSE card[k].text \o CardTextFrom(card, k + 1)

CardText(card) == CardTextFrom(card, 1)

\* The cleaning as it would be without the " ".join(title.split()).
et_clean_strip_only(text) == StrStrip(text)

\* title = elem.text.strip(); title = " ".join(title.split())
et_clean(text) == CollapseSpaces(StrStrip(text))

RECURSIVE et_selector_loop(_, _, _)
\* The for loop over selectors, from the i-th on, and the fall back to the
\* card's text behind it.
et_selector_loop(card, selectors, i) ==
    IF i > Len(selectors)
    THEN LET text == et_clean(CardText(card))
         IN IF Len(text) >= MinTitleLen THEN Some(text) ELSE None
    ELSE LET elem == select_one(card, selectors[i])
         IN IF elem # None /\ StrStrip(elem[1].text) # ""
                /\ Len(et_clean(elem[1].text)) >= MinTitleLen
            THEN Some(et_clean(elem[1].text))
            ELSE et_selector_loop(card, selectors, i + 1)

\* utils.extract_title(card)
extract_title(card) == et_selector_loop(card, utils_selectors, 1)

\* What thinkingmachines_blog reads from the card: the text of its
\* div[class='post-title'] and its own text.
TmCardView(card) ==
    LET elem == select_one(card, tm_selectors[1])
    IN [post_title |-> IF elem = None THEN None ELSE Some(elem[1].text),
        text |-> CardText(card)]

EtTags == {"h3", "h2", "h1", "div"}

EtClasses == {None, Some("Card_headline__reaoT"), Some("post-title")}

\* Texts: white space only; long enough as written but too short once
\* cleaned; long enough.
EtTexts == {"   ", "a   b", " Hello  World\n"}

EtNodes == [tag : EtTags, class : EtClasses, text : EtTexts]

EtInit ==
    /\ et_fn \in {"utils", "thinkingmachines"}
    /\ \E n \in 0..MaxCardNodes : et_card \in [1..n -> EtNodes]
    /\ et_pc = "call"
    /\ et_result = None
    /\ VaIdle
    /\ PdIdle
    /\ GfIdle
    /\ RunIdle
    /\ RaIdle

EtCall ==
    /\ et_pc = "call"
    /\ et_pc' = "done"
    /\ et_result' = IF et_fn = "utils" THEN extract_title(et_card)
                    ELSE tm_extract_title(TmCardView(et_card))
    /\ UNCHANGED <<et_fn, et_card, va_vars, pd_vars, gf_vars, run_vars, ra_vars>>

EtNext == EtCall

SpecTitle == EtInit /\ [][EtNext]_vars

-----------------------------------------------------------------------------
(* C14: extract_title returns the cleaned text (trimmed, every run of      *)
(* white space collapsed to one space) of the first selector, in the fixed *)
(* order, whose first matching element has a cleaned text of at least 5    *)
(* characters; if there is none, the cleaned text of the whole card when   *)
(* that has at least 5 characters; else None.  It never returns a string   *)
(* shorter than 5 characters.                                              *)

C14_Selectors == IF et_fn = "utils" THEN utils_selectors ELSE tm_selectors

\* The cleaned text of the first element the i-th selector matches.
C14_Cleaned(i) ==
    LET elem == select_one(et_card, C14_Selectors[i])
    IN IF elem = None THEN None ELSE Some(NormalizeSpace(elem[1].text))

C14_Accepted(i) == C14_Cleaned(i) # None /\ Len(C14_Cleaned(i)[1]) >= 5

C14_Expected ==
    IF \E i \in 1..Len(C14_Selectors) : C14_Accepted(i)
    THEN C14_Cleaned(CHOOSE i \in 1..Len(C14_Selectors) :
                         C14_Accepted(i) /\ \A j \in 1..(i - 1) : ~C14_Accepted(j))
    ELSE IF Len(NormalizeSpace(CardText(et_card))) >= 5
    THEN Some(NormalizeSpace(CardText(et_card)))
    ELSE None

C14_TitleChain ==
    et_pc = "done" =>
        /\ et_result = C14_Expected
        /\ et_result # None => Len(et_result[1]) >= 5

\* utils.extract_title has passed over a selector whose element was too
\* short once cleaned and has returned the text of a later selector.
C14_Witness ==
    /\ et_pc = "done"
    /\ et_fn = "utils"
    /\ et_result # None
    /\ \E i \in 2..Len(utils_selectors) :
          /\ C14_Accepted(i)
          /\ \A j \in 1..(i - 1) : ~C14_Accepted(j)
          /\ \E j \in 1..(i - 1) :
                /\ C14_Cleaned(j) # None
                /\ Len(select_one(et_card, utils_selectors[j])[1].text) >= 5

=============================================================================
